---- MODULE Spec2Model ----
\* A model of wc (src/wc/wc.go): the byte-driven state machine of count(),
\* its four 256-entry transition tables and the chunked read loop.
EXTENDS Integers, Sequences, FiniteSets, TLC

\* ------------------------------------------------------------------
\* Bounds of the model
\* ------------------------------------------------------------------

\* Longest stream built from the representative bytes.
MaxLen == 4

\* One or more representatives of every column of the transition table
\* (wc.go:81-87): tab, newline, space, a digit, a letter, a continuation
\* byte, a 2-byte lead, a 3-byte lead, an invalid lead.
RepBytes == {9, 10, 32, 48, 65, 128, 195, 226, 240}

\* Every byte value.
Byte == 0..255

\* Streams that leave the decoder in each of the four states; each is
\* followed by every one of the 256 byte values (ProbeStreams).
ProbePrefixes == {<< >>, <<65>>, <<195>>, <<226>>}

RECURSIVE SeqsUpTo(_, _)
SeqsUpTo(S, k) ==
  IF k = 0 THEN {<< >>}
  ELSE LET shorter == SeqsUpTo(S, k - 1)
       IN  shorter \cup {Append(s, b) : s \in {t \in shorter : Len(t) = k - 1}, b \in S}

RepStreams == SeqsUpTo(RepBytes, MaxLen)

ProbeStreams == {Append(p, b) : p \in ProbePrefixes, b \in Byte}

\* The contents a source can have in the model.
Streams == RepStreams \cup ProbeStreams

\* Most file names on a command line.
MaxArgs == 3

\* The files of the model, by name: five readable files, one that cannot
\* be opened, one whose reads end in an I/O error instead of end of file.
Paths == {"empty", "text", "bad", "lead2", "lead3", "missing", "faulty"}

\* The bytes a file hands out.
FileData(p) ==
  CASE p = "empty"  -> << >>
    [] p = "text"   -> <<65, 10>>
    [] p = "bad"    -> <<128, 10>>
    [] p = "lead2"  -> <<195>>
    [] p = "lead3"  -> <<226, 128>>
    [] p = "faulty" -> <<65, 195>>
    [] OTHER        -> << >>

\* os.Open(p) returns err == nil.
Opens(p) == p # "missing"

\* f.Read on p returns an error other than end of file once the bytes of
\* FileData(p) are used up, or together with the last of them.
Faulty(p) == p = "faulty"

\* What standard input can hold when no file is named.
StdinData == {FileData(p) : p \in {"empty", "text", "bad", "lead2", "lead3"}}

\* The command lines of the model.
ArgLists == SeqsUpTo(Paths, MaxArgs)

\* ------------------------------------------------------------------
\* Program constants
\* ------------------------------------------------------------------

\* const NBUF = 8 * 1024 (wc.go:41)
NBUF == 8192

\* actions (wc.go:89-106), numbered by iota
AC2   == 0    \* enter statec2
AC2R  == 1    \* enter statec2, don't count a rune
AC2W  == 2    \* enter statec2, count a word
AC2X  == 3    \* enter statec2, count a bad rune
AC3   == 4    \* enter statec3
AC3W  == 5    \* enter statec3, count a word
AC3X  == 6    \* enter statec3, count a bad rune
ASP   == 7    \* enter statesp
ASPN  == 8    \* enter statesp, count a newline
ASPNX == 9    \* enter statesp, count a newline, count a bad rune
ASPX  == 10   \* enter statesp, count a bad rune
AWD   == 11   \* enter statewd
AWDR  == 12   \* enter statewd, don't count a rune
AWDW  == 13   \* enter statewd, count a word
AWDWX == 14   \* enter statewd, count a word, count a bad rune
AWDX  == 15   \* enter statewd, count a bad rune

\* statesp (wc.go:108-141): looking for the start of a word.
\* Entry k+1 of the tuple is the Go table entry for byte k.
statesp ==
  <<
    AWDW, AWDW, AWDW, AWDW, AWDW, AWDW, AWDW, AWDW,  \* 00-07
    AWDW, ASP, ASPN, AWDW, AWDW, AWDW, AWDW, AWDW,  \* 08-0f
    AWDW, AWDW, AWDW, AWDW, AWDW, AWDW, AWDW, AWDW,  \* 10-17
    AWDW, AWDW, AWDW, AWDW, AWDW, AWDW, AWDW, AWDW,  \* 18-1f
    ASP, AWDW, AWDW, AWDW, AWDW, AWDW, AWDW, AWDW,  \* 20-27
    AWDW, AWDW, AWDW, AWDW, AWDW, AWDW, AWDW, AWDW,  \* 28-2f
    AWDW, AWDW, AWDW, AWDW, AWDW, AWDW, AWDW, AWDW,  \* 30-37
    AWDW, AWDW, AWDW, AWDW, AWDW, AWDW, AWDW, AWDW,  \* 38-3f
    AWDW, AWDW, AWDW, AWDW, AWDW, AWDW, AWDW, AWDW,  \* 40-47
    AWDW, AWDW, AWDW, AWDW, AWDW, AWDW, AWDW, AWDW,  \* 48-4f
    AWDW, AWDW, AWDW, AWDW, AWDW, AWDW, AWDW, AWDW,  \* 50-57
    AWDW, AWDW, AWDW, AWDW, AWDW, AWDW, AWDW, AWDW,  \* 58-5f
    AWDW, AWDW, AWDW, AWDW, AWDW, AWDW, AWDW, AWDW,  \* 60-67
    AWDW, AWDW, AWDW, AWDW, AWDW, AWDW, AWDW, AWDW,  \* 68-6f
    AWDW, AWDW, AWDW, AWDW, AWDW, AWDW, AWDW, AWDW,  \* 70-77
    AWDW, AWDW, AWDW, AWDW, AWDW, AWDW, AWDW, AWDW,  \* 78-7f
    AWDWX, AWDWX, AWDWX, AWDWX, AWDWX, AWDWX, AWDWX, AWDWX,  \* 80-87
    AWDWX, AWDWX, AWDWX, AWDWX, AWDWX, AWDWX, AWDWX, AWDWX,  \* 88-8f
    AWDWX, AWDWX, AWDWX, AWDWX, AWDWX, AWDWX, AWDWX, AWDWX,  \* 90-97
    AWDWX, AWDWX, AWDWX, AWDWX, AWDWX, AWDWX, AWDWX, AWDWX,  \* 98-9f
    AWDWX, AWDWX, AWDWX, AWDWX, AWDWX, AWDWX, AWDWX, AWDWX,  \* a0-a7
    AWDWX, AWDWX, AWDWX, AWDWX, AWDWX, AWDWX, AWDWX, AWDWX,  \* a8-af
    AWDWX, AWDWX, AWDWX, AWDWX, AWDWX, AWDWX, AWDWX, AWDWX,  \* b0-b7
    AWDWX, AWDWX, AWDWX, AWDWX, AWDWX, AWDWX, AWDWX, AWDWX,  \* b8-bf
    AC2W, AC2W, AC2W, AC2W, AC2W, AC2W, AC2W, AC2W,  \* c0-c7
    AC2W, AC2W, AC2W, AC2W, AC2W, AC2W, AC2W, AC2W,  \* c8-cf
    AC2W, AC2W, AC2W, AC2W, AC2W, AC2W, AC2W, AC2W,  \* d0-d7
    AC2W, AC2W, AC2W, AC2W, AC2W, AC2W, AC2W, AC2W,  \* d8-df
    AC3W, AC3W, AC3W, AC3W, AC3W, AC3W, AC3W, AC3W,  \* e0-e7
    AC3W, AC3W, AC3W, AC3W, AC3W, AC3W, AC3W, AC3W,  \* e8-ef
    AWDWX, AWDWX, AWDWX, AWDWX, AWDWX, AWDWX, AWDWX, AWDWX,  \* f0-f7
    AWDWX, AWDWX, AWDWX, AWDWX, AWDWX, AWDWX, AWDWX, AWDWX   \* f8-ff
  >>

\* statewd (wc.go:143-176): looking for the next character in a word.
\* Entry k+1 of the tuple is the Go table entry for byte k.
statewd ==
  <<
    AWD, AWD, AWD, AWD, AWD, AWD, AWD, AWD,  \* 00-07
    AWD, ASP, ASPN, AWD, AWD, AWD, AWD, AWD,  \* 08-0f
    AWD, AWD, AWD, AWD, AWD, AWD, AWD, AWD,  \* 10-17
    AWD, AWD, AWD, AWD, AWD, AWD, AWD, AWD,  \* 18-1f
    ASP, AWD, AWD, AWD, AWD, AWD, AWD, AWD,  \* 20-27
    AWD, AWD, AWD, AWD, AWD, AWD, AWD, AWD,  \* 28-2f
    AWD, AWD, AWD, AWD, AWD, AWD, AWD, AWD,  \* 30-37
    AWD, AWD, AWD, AWD, AWD, AWD, AWD, AWD,  \* 38-3f
    AWD, AWD, AWD, AWD, AWD, AWD, AWD, AWD,  \* 40-47
    AWD, AWD, AWD, AWD, AWD, AWD, AWD, AWD,  \* 48-4f
    AWD, AWD, AWD, AWD, AWD, AWD, AWD, AWD,  \* 50-57
    AWD, AWD, AWD, AWD, AWD, AWD, AWD, AWD,  \* 58-5f
    AWD, AWD, AWD, AWD, AWD, AWD, AWD, AWD,  \* 60-67
    AWD, AWD, AWD, AWD, AWD, AWD, AWD, AWD,  \* 68-6f
    AWD, AWD, AWD, AWD, AWD, AWD, AWD, AWD,  \* 70-77
    AWD, AWD, AWD, AWD, AWD, AWD, AWD, AWD,  \* 78-7f
    AWDX, AWDX, AWDX, AWDX, AWDX, AWDX, AWDX, AWDX,  \* 80-87
    AWDX, AWDX, AWDX, AWDX, AWDX, AWDX, AWDX, AWDX,  \* 88-8f
    AWDX, AWDX, AWDX, AWDX, AWDX, AWDX, AWDX, AWDX,  \* 90-97
    AWDX, AWDX, AWDX, AWDX, AWDX, AWDX, AWDX, AWDX,  \* 98-9f
    AWDX, AWDX, AWDX, AWDX, AWDX, AWDX, AWDX, AWDX,  \* a0-a7
    AWDX, AWDX, AWDX, AWDX, AWDX, AWDX, AWDX, AWDX,  \* a8-af
    AWDX, AWDX, AWDX, AWDX, AWDX, AWDX, AWDX, AWDX,  \* b0-b7
    AWDX, AWDX, AWDX, AWDX, AWDX, AWDX, AWDX, AWDX,  \* b8-bf
    AC2, AC2, AC2, AC2, AC2, AC2, AC2, AC2,  \* c0-c7
    AC2, AC2, AC2, AC2, AC2, AC2, AC2, AC2,  \* c8-cf
    AC2, AC2, AC2, AC2, AC2, AC2, AC2, AC2,  \* d0-d7
    AC2, AC2, AC2, AC2, AC2, AC2, AC2, AC2,  \* d8-df
    AC3, AC3, AC3, AC3, AC3, AC3, AC3, AC3,  \* e0-e7
    AC3, AC3, AC3, AC3, AC3, AC3, AC3, AC3,  \* e8-ef
    AWDX, AWDX, AWDX, AWDX, AWDX, AWDX, AWDX, AWDX,  \* f0-f7
    AWDX, AWDX, AWDX, AWDX, AWDX, AWDX, AWDX, AWDX   \* f8-ff
  >>

\* statec2 (wc.go:178-211): looking for 10xxxxxx to complete a rune.
\* Entry k+1 of the tuple is the Go table entry for byte k.
statec2 ==
  <<
    AWDX, AWDX, AWDX, AWDX, AWDX, AWDX, AWDX, AWDX,  \* 00-07
    AWDX, ASPX, ASPNX, AWDX, AWDX, AWDX, AWDX, AWDX,  \* 08-0f
    AWDX, AWDX, AWDX, AWDX, AWDX, AWDX, AWDX, AWDX,  \* 10-17
    AWDX, AWDX, AWDX, AWDX, AWDX, AWDX, AWDX, AWDX,  \* 18-1f
    ASPX, AWDX, AWDX, AWDX, AWDX, AWDX, AWDX, AWDX,  \* 20-27
    AWDX, AWDX, AWDX, AWDX, AWDX, AWDX, AWDX, AWDX,  \* 28-2f
    AWDX, AWDX, AWDX, AWDX, AWDX, AWDX, AWDX, AWDX,  \* 30-37
    AWDX, AWDX, AWDX, AWDX, AWDX, AWDX, AWDX, AWDX,  \* 38-3f
    AWDX, AWDX, AWDX, AWDX, AWDX, AWDX, AWDX, AWDX,  \* 40-47
    AWDX, AWDX, AWDX, AWDX, AWDX, AWDX, AWDX, AWDX,  \* 48-4f
    AWDX, AWDX, AWDX, AWDX, AWDX, AWDX, AWDX, AWDX,  \* 50-57
    AWDX, AWDX, AWDX, AWDX, AWDX, AWDX, AWDX, AWDX,  \* 58-5f
    AWDX, AWDX, AWDX, AWDX, AWDX, AWDX, AWDX, AWDX,  \* 60-67
    AWDX, AWDX, AWDX, AWDX, AWDX, AWDX, AWDX, AWDX,  \* 68-6f
    AWDX, AWDX, AWDX, AWDX, AWDX, AWDX, AWDX, AWDX,  \* 70-77
    AWDX, AWDX, AWDX, AWDX, AWDX, AWDX, AWDX, AWDX,  \* 78-7f
    AWDR, AWDR, AWDR, AWDR, AWDR, AWDR, AWDR, AWDR,  \* 80-87
    AWDR, AWDR, AWDR, AWDR, AWDR, AWDR, AWDR, AWDR,  \* 88-8f
    AWDR, AWDR, AWDR, AWDR, AWDR, AWDR, AWDR, AWDR,  \* 90-97
    AWDR, AWDR, AWDR, AWDR, AWDR, AWDR, AWDR, AWDR,  \* 98-9f
    AWDR, AWDR, AWDR, AWDR, AWDR, AWDR, AWDR, AWDR,  \* a0-a7
    AWDR, AWDR, AWDR, AWDR, AWDR, AWDR, AWDR, AWDR,  \* a8-af
    AWDR, AWDR, AWDR, AWDR, AWDR, AWDR, AWDR, AWDR,  \* b0-b7
    AWDR, AWDR, AWDR, AWDR, AWDR, AWDR, AWDR, AWDR,  \* b8-bf
    AC2X, AC2X, AC2X, AC2X, AC2X, AC2X, AC2X, AC2X,  \* c0-c7
    AC2X, AC2X, AC2X, AC2X, AC2X, AC2X, AC2X, AC2X,  \* c8-cf
    AC2X, AC2X, AC2X, AC2X, AC2X, AC2X, AC2X, AC2X,  \* d0-d7
    AC2X, AC2X, AC2X, AC2X, AC2X, AC2X, AC2X, AC2X,  \* d8-df
    AC3X, AC3X, AC3X, AC3X, AC3X, AC3X, AC3X, AC3X,  \* e0-e7
    AC3X, AC3X, AC3X, AC3X, AC3X, AC3X, AC3X, AC3X,  \* e8-ef
    AWDX, AWDX, AWDX, AWDX, AWDX, AWDX, AWDX, AWDX,  \* f0-f7
    AWDX, AWDX, AWDX, AWDX, AWDX, AWDX, AWDX, AWDX   \* f8-ff
  >>

\* statec3 (wc.go:213-246): looking for 10xxxxxx,10xxxxxx to complete a rune.
\* Entry k+1 of the tuple is the Go table entry for byte k.
statec3 ==
  <<
    AWDX, AWDX, AWDX, AWDX, AWDX, AWDX, AWDX, AWDX,  \* 00-07
    AWDX, ASPX, ASPNX, AWDX, AWDX, AWDX, AWDX, AWDX,  \* 08-0f
    AWDX, AWDX, AWDX, AWDX, AWDX, AWDX, AWDX, AWDX,  \* 10-17
    AWDX, AWDX, AWDX, AWDX, AWDX, AWDX, AWDX, AWDX,  \* 18-1f
    ASPX, AWDX, AWDX, AWDX, AWDX, AWDX, AWDX, AWDX,  \* 20-27
    AWDX, AWDX, AWDX, AWDX, AWDX, AWDX, AWDX, AWDX,  \* 28-2f
    AWDX, AWDX, AWDX, AWDX, AWDX, AWDX, AWDX, AWDX,  \* 30-37
    AWDX, AWDX, AWDX, AWDX, AWDX, AWDX, AWDX, AWDX,  \* 38-3f
    AWDX, AWDX, AWDX, AWDX, AWDX, AWDX, AWDX, AWDX,  \* 40-47
    AWDX, AWDX, AWDX, AWDX, AWDX, AWDX, AWDX, AWDX,  \* 48-4f
    AWDX, AWDX, AWDX, AWDX, AWDX, AWDX, AWDX, AWDX,  \* 50-57
    AWDX, AWDX, AWDX, AWDX, AWDX, AWDX, AWDX, AWDX,  \* 58-5f
    AWDX, AWDX, AWDX, AWDX, AWDX, AWDX, AWDX, AWDX,  \* 60-67
    AWDX, AWDX, AWDX, AWDX, AWDX, AWDX, AWDX, AWDX,  \* 68-6f
    AWDX, AWDX, AWDX, AWDX, AWDX, AWDX, AWDX, AWDX,  \* 70-77
    AWDX, AWDX, AWDX, AWDX, AWDX, AWDX, AWDX, AWDX,  \* 78-7f
    AC2R, AC2R, AC2R, AC2R, AC2R, AC2R, AC2R, AC2R,  \* 80-87
    AC2R, AC2R, AC2R, AC2R, AC2R, AC2R, AC2R, AC2R,  \* 88-8f
    AC2R, AC2R, AC2R, AC2R, AC2R, AC2R, AC2R, AC2R,  \* 90-97
    AC2R, AC2R, AC2R, AC2R, AC2R, AC2R, AC2R, AC2R,  \* 98-9f
    AC2R, AC2R, AC2R, AC2R, AC2R, AC2R, AC2R, AC2R,  \* a0-a7
    AC2R, AC2R, AC2R, AC2R, AC2R, AC2R, AC2R, AC2R,  \* a8-af
    AC2R, AC2R, AC2R, AC2R, AC2R, AC2R, AC2R, AC2R,  \* b0-b7
    AC2R, AC2R, AC2R, AC2R, AC2R, AC2R, AC2R, AC2R,  \* b8-bf
    AC2X, AC2X, AC2X, AC2X, AC2X, AC2X, AC2X, AC2X,  \* c0-c7
    AC2X, AC2X, AC2X, AC2X, AC2X, AC2X, AC2X, AC2X,  \* c8-cf
    AC2X, AC2X, AC2X, AC2X, AC2X, AC2X, AC2X, AC2X,  \* d0-d7
    AC2X, AC2X, AC2X, AC2X, AC2X, AC2X, AC2X, AC2X,  \* d8-df
    AC3X, AC3X, AC3X, AC3X, AC3X, AC3X, AC3X, AC3X,  \* e0-e7
    AC3X, AC3X, AC3X, AC3X, AC3X, AC3X, AC3X, AC3X,  \* e8-ef
    AWDX, AWDX, AWDX, AWDX, AWDX, AWDX, AWDX, AWDX,  \* f0-f7
    AWDX, AWDX, AWDX, AWDX, AWDX, AWDX, AWDX, AWDX   \* f8-ff
  >>

\* ------------------------------------------------------------------
\* count(): the per-byte switch and the chunked read loop
\* ------------------------------------------------------------------

\* The four tables the slice `state` can point at (wc.go:249, 270-313).
States == {"statesp", "statewd", "statec2", "statec3"}

Table(st) ==
  CASE st = "statesp" -> statesp
    [] st = "statewd" -> statewd
    [] st = "statec2" -> statec2
    [] st = "statec3" -> statec3

\* Variants of Lookup, each with one slip in one table.
\* statewd: the 80-87 row starts one row early, at 78.
LookupRowEarly(st, b) ==
  IF st = "statewd" /\ b \in 120..127 THEN AWDX ELSE Table(st)[b + 1]

\* statec3: space is entered as AWDX instead of ASPX.
LookupSpaceInWord(st, b) ==
  IF st = "statec3" /\ b = 32 THEN AWDX ELSE Table(st)[b + 1]

\* statec2 is filled with the rows of statec3.
LookupC2AsC3(st, b) ==
  IF st = "statec2" THEN statec3[b + 1] ELSE Table(st)[b + 1]

\* statec2: tab is entered as AWDX instead of ASPX.
LookupTabInC2(st, b) ==
  IF st = "statec2" /\ b = 9 THEN AWDX ELSE Table(st)[b + 1]

\* statewd: the e0-ef rows are entered as AC2 instead of AC3.
LookupLead3AsLead2(st, b) ==
  IF st = "statewd" /\ b \in 224..239 THEN AC2 ELSE Table(st)[b + 1]

\* state[buf[i]] (wc.go:268)
Lookup(st, b) == Table(st)[b + 1]

\* n.chars-- on a uint64 (wc.go:273, 304).  A decrement of 0 wraps to
\* 2^64-1, which is outside TLC's integers: -1 stands for the wrapped value.
U64Dec(x) == IF x = 0 THEN -1 ELSE x - 1

\* new(counter) / the five assignments at wc.go:251-255
ZeroCounter == [lines |-> 0, words |-> 0, chars |-> 0, errors |-> 0, bytes |-> 0]

\* Variant of Switch: the case AWDR is missing.
SwitchNoAWDR(act, st, c) ==
  CASE act = AC2   -> [state |-> "statec2", n |-> c]
    [] act = AC2R  -> [state |-> "statec2", n |-> [c EXCEPT !.chars = U64Dec(@)]]
    [] act = AC2W  -> [state |-> "statec2", n |-> [c EXCEPT !.words = @ + 1]]
    [] act = AC2X  -> [state |-> "statec2", n |-> [c EXCEPT !.errors = @ + 1]]
    [] act = AC3   -> [state |-> "statec3", n |-> c]
    [] act = AC3W  -> [state |-> "statec3", n |-> [c EXCEPT !.words = @ + 1]]
    [] act = AC3X  -> [state |-> "statec3", n |-> [c EXCEPT !.errors = @ + 1]]
    [] act = ASP   -> [state |-> "statesp", n |-> c]
    [] act = ASPN  -> [state |-> "statesp", n |-> [c EXCEPT !.lines = @ + 1]]
    [] act = ASPNX -> [state |-> "statesp",
                       n |-> [c EXCEPT !.lines = @ + 1, !.errors = @ + 1]]
    [] act = ASPX  -> [state |-> "statesp", n |-> [c EXCEPT !.errors = @ + 1]]
    [] act = AWD   -> [state |-> "statewd", n |-> c]
    [] act = AWDW  -> [state |-> "statewd", n |-> [c EXCEPT !.words = @ + 1]]
    [] act = AWDWX -> [state |-> "statewd",
                       n |-> [c EXCEPT !.words = @ + 1, !.errors = @ + 1]]
    [] act = AWDX  -> [state |-> "statewd", n |-> [c EXCEPT !.errors = @ + 1]]
    [] OTHER       -> [state |-> st, n |-> c]

\* The switch of wc.go:268-315 applied to table entry act, from decoder
\* state st and counters c.  A value without a case falls out of the
\* switch: nothing is assigned.
Switch(act, st, c) ==
  CASE act = AC2   -> [state |-> "statec2", n |-> c]
    [] act = AC2R  -> [state |-> "statec2", n |-> [c EXCEPT !.chars = U64Dec(@)]]
    [] act = AC2W  -> [state |-> "statec2", n |-> [c EXCEPT !.words = @ + 1]]
    [] act = AC2X  -> [state |-> "statec2", n |-> [c EXCEPT !.errors = @ + 1]]
    [] act = AC3   -> [state |-> "statec3", n |-> c]
    [] act = AC3W  -> [state |-> "statec3", n |-> [c EXCEPT !.words = @ + 1]]
    [] act = AC3X  -> [state |-> "statec3", n |-> [c EXCEPT !.errors = @ + 1]]
    [] act = ASP   -> [state |-> "statesp", n |-> c]
    [] act = ASPN  -> [state |-> "statesp", n |-> [c EXCEPT !.lines = @ + 1]]
    [] act = ASPNX -> [state |-> "statesp",
                       n |-> [c EXCEPT !.lines = @ + 1, !.errors = @ + 1]]
    [] act = ASPX  -> [state |-> "statesp", n |-> [c EXCEPT !.errors = @ + 1]]
    [] act = AWD   -> [state |-> "statewd", n |-> c]
    [] act = AWDR  -> [state |-> "statewd", n |-> [c EXCEPT !.chars = U64Dec(@)]]
    [] act = AWDW  -> [state |-> "statewd", n |-> [c EXCEPT !.words = @ + 1]]
    [] act = AWDWX -> [state |-> "statewd",
                       n |-> [c EXCEPT !.words = @ + 1, !.errors = @ + 1]]
    [] act = AWDX  -> [state |-> "statewd", n |-> [c EXCEPT !.errors = @ + 1]]
    [] OTHER       -> [state |-> st, n |-> c]

\* Variants of StepByte, each with one slip in one case of the switch.
\* AC3W forgets n.words++.
StepByteNoWordAC3W(st, c, b) ==
  IF Lookup(st, b) = AC3W THEN [state |-> "statec3", n |-> c]
  ELSE Switch(Lookup(st, b), st, c)

\* ASPNX forgets n.lines++.
StepByteNoLineASPNX(st, c, b) ==
  IF Lookup(st, b) = ASPNX
  THEN [state |-> "statesp", n |-> [c EXCEPT !.errors = @ + 1]]
  ELSE Switch(Lookup(st, b), st, c)

\* AC2R forgets n.chars--.
StepByteNoDecAC2R(st, c, b) ==
  IF Lookup(st, b) = AC2R THEN [state |-> "statec2", n |-> c]
  ELSE Switch(Lookup(st, b), st, c)

\* AWDWX forgets n.errors++.
StepByteNoErrAWDWX(st, c, b) ==
  IF Lookup(st, b) = AWDWX
  THEN [state |-> "statewd", n |-> [c EXCEPT !.words = @ + 1]]
  ELSE Switch(Lookup(st, b), st, c)

\* AWDR forgets n.chars--.
StepByteNoDecAWDR(st, c, b) ==
  IF Lookup(st, b) = AWDR THEN [state |-> "statewd", n |-> c]
  ELSE Switch(Lookup(st, b), st, c)

\* AWDWX also takes the provisional character back.
StepByteBadRuneNoChar(st, c, b) ==
  IF Lookup(st, b) = AWDWX
  THEN [state |-> "statewd",
        n |-> [c EXCEPT !.words = @ + 1, !.errors = @ + 1, !.chars = U64Dec(@)]]
  ELSE Switch(Lookup(st, b), st, c)

\* AC3X forgets n.errors++.
StepByteNoErrAC3X(st, c, b) ==
  IF Lookup(st, b) = AC3X THEN [state |-> "statec3", n |-> c]
  ELSE Switch(Lookup(st, b), st, c)

\* One byte of the inner loop: look the byte up in the current table and
\* run the switch (wc.go:268-315).
StepByte(st, c, b) == Switch(Lookup(st, b), st, c)

\* Variant of AddChunk: = written for +=.
AddChunkAssign(c, k) == [c EXCEPT !.bytes = k, !.chars = k]

\* n.bytes += uint64(nr); n.chars += uint64(nr) (wc.go:265-266)
AddChunk(c, k) == [c EXCEPT !.bytes = @ + k, !.chars = @ + k]

\* The inner loop over a whole chunk (wc.go:267-316).
RECURSIVE RunBytes(_, _, _)
RunBytes(st, c, chunk) ==
  IF chunk = << >> THEN [state |-> st, n |-> c]
  ELSE LET r == StepByte(st, c, Head(chunk))
       IN  RunBytes(r.state, r.n, Tail(chunk))

\* One iteration of the read loop on a chunk of nr > 0 bytes (wc.go:265-316).
CountChunk(st, c, chunk) == RunBytes(st, AddChunk(c, Len(chunk)), chunk)

\* count() on a source whose bytes all arrive in a single read
\* (wc.go:249-318); an empty source gives no chunk at all.
CountWhole(s) ==
  IF s = << >> THEN [state |-> "statesp", n |-> ZeroCounter]
  ELSE CountChunk("statesp", ZeroCounter, s)

Min(a, b) == IF a < b THEN a ELSE b

VARIABLES
  input,   \* the bytes of the source f
  off,     \* file offset of f: bytes handed out by Read so far
  buf,     \* buf[0:nr], the bytes of the last read
  nr,      \* result of the last f.Read
  i,       \* index of the inner loop
  state,   \* which table the slice `state` points at
  n,       \* the counter *n
  reads,   \* number of reads that returned bytes
  pc,      \* position in count(): "begin", "read", "loop", "done";
           \* in main(): "main", "for", "exit"
  args,    \* flag.Args(), the names of the sources
  argi,    \* i of the for loop of main
  t,       \* the counter *t
  out,     \* the lines written to os.Stdout
  errout,  \* the lines written to os.Stderr
  status,  \* exit status of the process, -1 while it runs
  fname,   \* f.Name()
  rderr    \* names of the sources on which f.Read has returned an error

\* The variables count() leaves alone.
mvars == <<args, argi, t, out, errout, status, fname>>

vars == <<input, off, buf, nr, i, state, n, reads, pc, mvars, rderr>>

\* main has allocated n and t (wc.go:321-322), no file is named and
\* count(n, os.Stdin) is called (wc.go:331-332).
Init ==
  /\ input \in Streams
  /\ off = 0
  /\ buf = << >>
  /\ nr = 0
  /\ i = 0
  /\ state = "statesp"
  /\ n = ZeroCounter
  /\ reads = 0
  /\ pc = "begin"
  /\ args = << >>
  /\ argi = 0
  /\ t = ZeroCounter
  /\ out = << >>
  /\ errout = << >>
  /\ status = -1
  /\ fname = "/dev/stdin"
  /\ rderr = {}

\* Variant of CountBegin: the decoder state outlives the call.
CountBeginKeepState ==
  /\ pc = "begin"
  /\ state' = state
  /\ n' = ZeroCounter
  /\ pc' = "read"
  /\ UNCHANGED <<input, off, buf, nr, i, reads, mvars, rderr>>

\* wc.go:249-255: state := statesp[:], the five counters set to zero.
CountBegin ==
  /\ pc = "begin"
  /\ state' = "statesp"
  /\ n' = ZeroCounter
  /\ pc' = "read"
  /\ UNCHANGED <<input, off, buf, nr, i, reads, mvars, rderr>>

\* wc.go:257-266: f.Read returns k >= 1 bytes, at most NBUF and at most
\* what is left; bytes and chars are advanced by k before the inner loop.
ReadChunk ==
  /\ pc = "read"
  /\ off < Len(input)
  /\ \E k \in 1..Min(NBUF, Len(input) - off) :
       /\ nr' = k
       /\ buf' = SubSeq(input, off + 1, off + k)
       /\ off' = off + k
       /\ n' = AddChunk(n, k)
  /\ i' = 0
  /\ reads' = reads + 1
  /\ pc' = "loop"
  /\ UNCHANGED <<input, state, mvars, rderr>>

\* Variants of ReadEof that settle a pending sequence at end of input.
\* The provisional character of the pending sequence is taken back.
ReadEofRetract ==
  /\ pc = "read"
  /\ off = Len(input)
  /\ ~Faulty(fname)
  /\ nr' = 0
  /\ n' = IF state \in {"statec2", "statec3"}
          THEN [n EXCEPT !.chars = U64Dec(@)] ELSE n
  /\ pc' = "done"
  /\ UNCHANGED <<input, off, buf, i, state, reads, mvars, rderr>>

\* The pending sequence is counted as a bad rune.
ReadEofFlag ==
  /\ pc = "read"
  /\ off = Len(input)
  /\ ~Faulty(fname)
  /\ nr' = 0
  /\ n' = IF state \in {"statec2", "statec3"}
          THEN [n EXCEPT !.errors = @ + 1] ELSE n
  /\ pc' = "done"
  /\ UNCHANGED <<input, off, buf, i, state, reads, mvars, rderr>>

\* wc.go:257-260: the source is exhausted, f.Read returns 0 (and
\* io.EOF) and the loop breaks; nothing else is done before count()
\* returns.
ReadEof ==
  /\ pc = "read"
  /\ off = Len(input)
  /\ ~Faulty(fname)
  /\ nr' = 0
  /\ pc' = "done"
  /\ UNCHANGED <<input, off, buf, i, state, n, reads, mvars, rderr>>

\* wc.go:267-316: one iteration of the inner loop on buf[i].
Step ==
  /\ pc = "loop"
  /\ i < nr
  /\ LET r == StepByte(state, n, buf[i + 1])
     IN  /\ state' = r.state
         /\ n' = r.n
  /\ i' = i + 1
  /\ pc' = IF i + 1 < nr THEN "loop" ELSE "read"
  /\ UNCHANGED <<input, off, buf, nr, reads, mvars, rderr>>

Next == CountBegin \/ ReadChunk \/ ReadEof \/ Step

Spec == Init /\ [][Next]_vars

\* ------------------------------------------------------------------
\* main(): the sources named on the command line, or standard input
\* ------------------------------------------------------------------

\* report(c, name) (wc.go:56-75): one line with the selected counters of
\* c and the name; the line is kept as the name and the counters.
Report(c, name) == [name |-> name, c |-> c]

\* t.lines += n.lines ... t.bytes += n.bytes (wc.go:343-347)
AddCounters(a, b) ==
  [lines  |-> a.lines + b.lines,
   words  |-> a.words + b.words,
   chars  |-> a.chars + b.chars,
   errors |-> a.errors + b.errors,
   bytes  |-> a.bytes + b.bytes]

\* flag.NArg()
NArg == Len(args)

\* main starts (wc.go:321-322) with some command line.
InitMain ==
  /\ args \in ArgLists
  /\ argi = 0
  /\ n = ZeroCounter
  /\ t = ZeroCounter
  /\ out = << >>
  /\ errout = << >>
  /\ status = -1
  /\ pc = "main"
  /\ input = << >>
  /\ fname = ""
  /\ off = 0
  /\ buf = << >>
  /\ nr = 0
  /\ i = 0
  /\ state = "statesp"
  /\ reads = 0
  /\ rderr = {}

\* wc.go:331-332: with no file named, count(n, os.Stdin) is called;
\* otherwise main goes on to the for loop.
MainBegin ==
  /\ pc = "main"
  /\ IF NArg = 0
     THEN /\ \E d \in StdinData : input' = d
          /\ fname' = "/dev/stdin"
          /\ pc' = "begin"
     ELSE /\ pc' = "for"
          /\ UNCHANGED <<input, fname>>
  /\ UNCHANGED <<off, buf, nr, i, state, n, reads, args, argi, t, out,
                 errout, status, rderr>>

\* wc.go:333: report(n, "") after count(n, os.Stdin) has returned.
MainReportStdin ==
  /\ pc = "done"
  /\ NArg = 0
  /\ out' = Append(out, Report(n, ""))
  /\ pc' = "for"
  /\ UNCHANGED <<input, off, buf, nr, i, state, n, reads, args, argi, t,
                 errout, status, fname, rderr>>

\* Variant of MainOpen: after the diagnostic main goes on to the next
\* source.
MainOpenSkip ==
  /\ pc = "for"
  /\ argi < NArg
  /\ IF ~Opens(args[argi + 1])
     THEN /\ errout' = Append(errout, [msg |-> "can't open", name |-> args[argi + 1]])
          /\ argi' = argi + 1
          /\ pc' = "for"
          /\ UNCHANGED <<input, fname, off, buf, nr, i, reads, status>>
     ELSE /\ input' = FileData(args[argi + 1])
          /\ fname' = args[argi + 1]
          /\ off' = 0
          /\ buf' = << >>
          /\ nr' = 0
          /\ i' = 0
          /\ reads' = 0
          /\ pc' = "begin"
          /\ UNCHANGED <<errout, status, argi>>
  /\ UNCHANGED <<state, n, args, t, out, rderr>>

\* wc.go:335-342: the next source is opened.  If it cannot be, the
\* diagnostic is written and os.Exit(1) ends the process (the deferred
\* Close is not run); else count(n, f) is called on it.
MainOpen ==
  /\ pc = "for"
  /\ argi < NArg
  /\ IF ~Opens(args[argi + 1])
     THEN /\ errout' = Append(errout, [msg |-> "can't open", name |-> args[argi + 1]])
          /\ status' = 1
          /\ pc' = "exit"
          /\ UNCHANGED <<input, fname, off, buf, nr, i, reads>>
     ELSE /\ input' = FileData(args[argi + 1])
          /\ fname' = args[argi + 1]
          /\ off' = 0
          /\ buf' = << >>
          /\ nr' = 0
          /\ i' = 0
          /\ reads' = 0
          /\ pc' = "begin"
          /\ UNCHANGED <<errout, status>>
  /\ UNCHANGED <<state, n, args, argi, t, out, rderr>>

\* wc.go:257-266 when f.Read returns an error other than end of file,
\* with k >= 0 bytes: k == 0 breaks out of the loop as end of file does,
\* k < 0 is the only case that reports the error and exits, and any
\* other k is handled as a chunk; er is not looked at.
ReadError ==
  /\ pc = "read"
  /\ Faulty(fname)
  /\ \E k \in {Len(input) - off} :
       IF k = 0
       THEN /\ nr' = 0
            /\ pc' = "done"
            /\ UNCHANGED <<off, buf, i, n, reads, errout, status>>
       ELSE IF k < 0
       THEN /\ errout' = Append(errout, [msg |-> "error reading from", name |-> fname])
            /\ status' = 1
            /\ pc' = "exit"
            /\ UNCHANGED <<off, buf, nr, i, n, reads>>
       ELSE /\ nr' = k
            /\ buf' = SubSeq(input, off + 1, off + k)
            /\ off' = off + k
            /\ n' = AddChunk(n, k)
            /\ i' = 0
            /\ reads' = reads + 1
            /\ pc' = "loop"
            /\ UNCHANGED <<errout, status>>
  /\ rderr' = rderr \cup {fname}
  /\ UNCHANGED <<input, state, args, argi, t, out, fname>>

\* Variant of MainAccumulate: t.errors += n.errors is left out.
MainAccumulateNoErrors ==
  /\ pc = "done"
  /\ NArg > 0
  /\ t' = [AddCounters(t, n) EXCEPT !.errors = t.errors]
  /\ out' = Append(out, Report(n, args[argi + 1]))
  /\ argi' = argi + 1
  /\ pc' = "for"
  /\ UNCHANGED <<input, off, buf, nr, i, state, n, reads, args, errout,
                 status, fname, rderr>>

\* wc.go:343-348 and the i++ of the loop: count(n, f) has returned, n is
\* added to t and the line of the source is written.
MainAccumulate ==
  /\ pc = "done"
  /\ NArg > 0
  /\ t' = AddCounters(t, n)
  /\ out' = Append(out, Report(n, args[argi + 1]))
  /\ argi' = argi + 1
  /\ pc' = "for"
  /\ UNCHANGED <<input, off, buf, nr, i, state, n, reads, args, errout,
                 status, fname, rderr>>

\* wc.go:350-353: the loop is over; with more than one file named the
\* total line is written; main returns.
MainEnd ==
  /\ pc = "for"
  /\ argi = NArg
  /\ out' = IF NArg > 1 THEN Append(out, Report(t, "total")) ELSE out
  /\ status' = 0
  /\ pc' = "exit"
  /\ UNCHANGED <<input, off, buf, nr, i, state, n, reads, args, argi, t,
                 errout, fname, rderr>>

NextMain ==
  \/ MainBegin \/ MainReportStdin \/ MainOpen \/ MainAccumulate \/ MainEnd
  \/ CountBegin \/ ReadChunk \/ ReadEof \/ ReadError \/ Step

SpecMain == InitMain /\ [][NextMain]_vars

\* The bytes of the source the inner loop has gone through so far.
Seen ==
  IF pc = "loop" THEN SubSeq(input, 1, off - nr + i) ELSE SubSeq(input, 1, off)

TypeOK ==
  /\ state \in States
  /\ pc \in {"begin", "read", "loop", "done", "main", "for", "exit"}
  /\ off \in 0..Len(input)
  /\ i \in 0..Len(buf)

\* ------------------------------------------------------------------
\* Byte classes: the columns of the table at wc.go:81-87
\* ------------------------------------------------------------------

White       == {9, 10, 32}
Cont        == 128..191
Lead2       == 192..223
Lead3       == 224..239
BadLead     == 240..255
AlnumOrWhite == White \cup (48..57) \cup (65..90) \cup (97..122)
Expecting   == {"statec2", "statec3"}

\* ------------------------------------------------------------------
\* C1
\* ------------------------------------------------------------------

\* C1: however the reads cut the stream into chunks, count() returns with
\* the five counters and the decoder state it has when the whole stream
\* arrives in one chunk.
ChunkingIsInvisible ==
  pc = "done" => [state |-> state, n |-> n] = CountWhole(input)

\* A 3-byte sequence delivered one byte per read, count() finished.
ChunkingWitness ==
  /\ pc = "done"
  /\ Len(input) >= 3
  /\ reads = Len(input)
  /\ \E p \in 1..(Len(input) - 2) :
       input[p] \in Lead3 /\ input[p + 1] \in Cont /\ input[p + 2] \in Cont
  /\ n.chars < n.bytes

\* ------------------------------------------------------------------
\* C2
\* ------------------------------------------------------------------

\* Number of maximal runs of bytes other than tab, newline and space.
WordRuns(s) ==
  Cardinality({p \in 1..Len(s) :
                 s[p] \notin White /\ (p = 1 \/ s[p - 1] \in White)})

\* C2: the final words counter is the number of maximal runs of bytes
\* other than 0x09, 0x0A and 0x20, well-formed or not.
WordsAreMaximalRuns ==
  pc = "done" => n.words = WordRuns(input)

\* Leading white space, two runs separated by white space, one of them
\* made of malformed bytes.
WordsWitness ==
  /\ pc = "done"
  /\ Len(input) >= 4
  /\ input[1] \in White
  /\ input[2] \in Cont \cup BadLead
  /\ input[3] \in White
  /\ input[4] \in Lead2 \cup Lead3
  /\ n.words = 2

\* ------------------------------------------------------------------
\* C3
\* ------------------------------------------------------------------

NewlineCount(s) == Cardinality({p \in 1..Len(s) : s[p] = 10})

\* C3: after every byte, lines is the number of 0x0A bytes gone through:
\* a 0x0A counts one line from each of the four states, no other byte
\* counts a line.
LinesAreNewlines ==
  pc # "begin" => n.lines = NewlineCount(Seen)

\* A newline taken in statec3 and one taken in statec2 have been counted.
LinesWitness ==
  /\ pc = "done"
  /\ input = <<226, 10, 195, 10>>
  /\ n.lines = 2

\* ------------------------------------------------------------------
\* C4
\* ------------------------------------------------------------------

\* Counters of the stream s cut before its last k bytes.
Before(s, k) == CountWhole(SubSeq(s, 1, Len(s) - k)).n

\* C4: at the end of the chunk that ends a well-formed 2-byte (3-byte)
\* sequence, bytes is 2 (3) and chars is 1 above their values for the
\* stream cut before the sequence, from whatever state the lead was met.
SequenceIsOneChar ==
  pc \in {"read", "done"} =>
    /\ (off >= 2 /\ input[off - 1] \in Lead2 /\ input[off] \in Cont) =>
         /\ n.bytes = Before(Seen, 2).bytes + 2
         /\ n.chars = Before(Seen, 2).chars + 1
    /\ (off >= 3 /\ input[off - 2] \in Lead3 /\ input[off - 1] \in Cont
          /\ input[off] \in Cont) =>
         /\ n.bytes = Before(Seen, 3).bytes + 3
         /\ n.chars = Before(Seen, 3).chars + 1

\* A 3-byte sequence whose lead was met in statec3 and whose last byte
\* came in a chunk of its own.
SequenceWitness ==
  /\ pc = "read"
  /\ off = 4
  /\ nr = 1
  /\ SubSeq(input, 1, 4) = <<226, 226, 128, 128>>
  /\ n.chars = 2
  /\ n.bytes = 4

\* ------------------------------------------------------------------
\* C5
\* ------------------------------------------------------------------

\* C5: a stream of tabs, newlines, spaces, ASCII letters and digits ends
\* with errors = 0 and chars = bytes.
PlainTextIsClean ==
  (pc = "done" /\ \A p \in 1..Len(input) : input[p] \in AlnumOrWhite) =>
    (n.errors = 0 /\ n.chars = n.bytes)

\* A letter, a digit and white space have been counted.
PlainTextWitness ==
  /\ pc = "done"
  /\ input = <<65, 48, 32, 10>>
  /\ n.chars = 4
  /\ n.bytes = 4
  /\ n.errors = 0

\* ------------------------------------------------------------------
\* C6
\* ------------------------------------------------------------------

\* The malformed-sequence events: a continuation byte with no pending
\* lead, a pending sequence broken by a non-continuation byte, a lead of
\* an unsupported width.
Malformed(st, b) ==
  \/ b \in Cont /\ st \in {"statesp", "statewd"}
  \/ b \notin Cont /\ st \in Expecting
  \/ b \in BadLead

\* C6: a byte step adds one to errors when the (state, byte) pair is a
\* malformed-sequence event and leaves errors alone otherwise; no step
\* adds more than one.
MalformedCountsOnce ==
  [][pc = "loop" =>
       n'.errors = n.errors + (IF Malformed(state, buf[i + 1]) THEN 1 ELSE 0)]_vars

\* An invalid lead that also breaks a pending 3-byte sequence has been
\* counted, once.
MalformedWitness ==
  /\ pc = "done"
  /\ input = <<226, 240>>
  /\ n.errors = 1

\* ------------------------------------------------------------------
\* C7
\* ------------------------------------------------------------------

\* The step on buf[i] breaks a pending sequence.
BreaksPending == pc = "loop" /\ state \in Expecting /\ buf[i + 1] \notin Cont

\* What the same byte does when it arrives in statewd.
FromInWord == StepByte("statewd", n, buf[i + 1])

\* C7 as stated: a byte that breaks a pending sequence gets the next
\* state and the line and word counts it gets from statewd, and one
\* error more than it gets from statewd.
BrokenThenAsInWord ==
  [][BreaksPending =>
       /\ state' = FromInWord.state
       /\ n'.lines = FromInWord.n.lines
       /\ n'.words = FromInWord.n.words
       /\ n'.errors = FromInWord.n.errors + 1]_vars

\* C7, amended: next state, lines and words are those the byte gets from
\* statewd; errors goes up by exactly one, which for 0xF0-0xFF is what
\* the byte gets from statewd and for every other byte is one more.
BrokenCountsOneError ==
  [][BreaksPending =>
       /\ state' = FromInWord.state
       /\ n'.lines = FromInWord.n.lines
       /\ n'.words = FromInWord.n.words
       /\ n'.errors = n.errors + 1
       /\ n'.errors = FromInWord.n.errors
                        + (IF buf[i + 1] \in BadLead THEN 0 ELSE 1)]_vars

\* A newline has broken a pending 2-byte sequence: one line, one error,
\* back in statesp.
BrokenWitness ==
  /\ pc = "done"
  /\ input = <<195, 10>>
  /\ state = "statesp"
  /\ n.lines = 1
  /\ n.errors = 1
  /\ n.words = 1

\* ------------------------------------------------------------------
\* C8, C9
\* ------------------------------------------------------------------

\* Length of the unterminated sequence a stream ends with: a lone lead,
\* or a 3-byte lead and one continuation byte; 0 if there is none.
TrailLen(s) ==
  IF s = << >> THEN 0
  ELSE IF s[Len(s)] \in Lead2 \cup Lead3 THEN 1
  ELSE IF Len(s) >= 2 /\ s[Len(s)] \in Cont /\ s[Len(s) - 1] \in Lead3 THEN 2
  ELSE 0

\* count() on the stream without its unterminated trailing sequence.
Untrailed(s) == CountWhole(SubSeq(s, 1, Len(s) - TrailLen(s)))

\* C8 as stated: at end of input in statec2 or statec3 the trailing
\* sequence has added nothing to errors and nothing to chars.
PendingAddsNothing ==
  (pc = "done" /\ state \in Expecting) =>
    /\ n.errors = Untrailed(input).n.errors
    /\ n.chars = Untrailed(input).n.chars

\* C8, amended: at end of input in statec2 or statec3 the trailing
\* sequence is not counted as a bad sequence but is counted as one
\* character: chars is one above the stream without it, and errors is
\* equal, or one above when the trailing lead broke a sequence that was
\* already pending.
PendingIsOneCharNoError ==
  (pc = "done" /\ state \in Expecting) =>
    /\ n.chars = Untrailed(input).n.chars + 1
    /\ n.errors = Untrailed(input).n.errors
                    + (IF Untrailed(input).state \in Expecting THEN 1 ELSE 0)

\* Input ended in statec3 on a lone 3-byte lead after a word.
PendingWitness ==
  /\ pc = "done"
  /\ state = "statec3"
  /\ input = <<65, 226>>
  /\ n.chars = 2
  /\ n.errors = 0

\* C9 as stated: a stream ending with an unterminated sequence has one
\* character more, the trailing bytes more, and the same errors as the
\* stream without it.
TrailingIsOneChar ==
  (pc = "done" /\ TrailLen(input) > 0) =>
    /\ n.chars = Untrailed(input).n.chars + 1
    /\ n.bytes = Untrailed(input).n.bytes + TrailLen(input)
    /\ n.errors = Untrailed(input).n.errors

\* C9, amended: as stated when the stream without the trailing sequence
\* leaves the decoder in statesp or statewd; when it leaves a sequence
\* pending, the trailing lead breaks it and errors is one more.
TrailingIsOneCharAfterWhole ==
  (pc = "done" /\ TrailLen(input) > 0) =>
    /\ n.chars = Untrailed(input).n.chars + 1
    /\ n.bytes = Untrailed(input).n.bytes + TrailLen(input)
    /\ Untrailed(input).state \notin Expecting =>
         n.errors = Untrailed(input).n.errors
    /\ Untrailed(input).state \in Expecting =>
         n.errors = Untrailed(input).n.errors + 1

\* Input ended on a 3-byte lead and one continuation byte, after a
\* well-formed 2-byte sequence.
TrailingWitness ==
  /\ pc = "done"
  /\ input = <<195, 128, 226, 128>>
  /\ state = "statec2"
  /\ n.chars = 2
  /\ n.bytes = 4
  /\ n.errors = 0

\* ------------------------------------------------------------------
\* C10
\* ------------------------------------------------------------------

\* The 16 actions of wc.go:89-106.
Actions ==
  {AC2, AC2R, AC2W, AC2X, AC3, AC3W, AC3X, ASP, ASPN, ASPNX, ASPX,
   AWD, AWDR, AWDW, AWDWX, AWDX}

\* C10: whenever the inner loop is at a byte, the current table has 256
\* entries, the entry for the byte is one of the 16 actions, the switch
\* has a case for it (it assigns the state even from a value that is no
\* state), and the state it assigns is one of the four.
StepIsTotal ==
  pc = "loop" =>
    /\ Len(Table(state)) = 256
    /\ Lookup(state, buf[i + 1]) \in Actions
    /\ Switch(Lookup(state, buf[i + 1]), "none", n).state \in States
    /\ StepByte(state, n, buf[i + 1]).state \in States

\* The last entry of the last table has been looked up and acted on.
TotalWitness ==
  /\ pc = "read"
  /\ input = <<226, 255>>
  /\ off = 2
  /\ state = "statewd"
  /\ n.errors = 1

\* ------------------------------------------------------------------
\* C11
\* ------------------------------------------------------------------

\* A space, a letter, a 2-byte lead and a 3-byte lead.
Drivers == {32, 65, 195, 226}

\* C11: when count() starts, each of the four states is the state some
\* stream leaves the decoder in; and from the state the decoder is in,
\* whichever it is, each of the four states is one byte away.
AllStatesInReach ==
  /\ pc = "begin" =>
       \A d \in States : \E q \in ProbePrefixes : CountWhole(q).state = d
  /\ \A d \in States : \E b \in Drivers : StepByte(state, n, b).state = d

\* A run that has gone from statesp through statewd, statec2 and statec3
\* back to statesp: the two broken sequences are its two errors.
ReachWitness ==
  /\ pc = "done"
  /\ input = <<65, 195, 226, 32>>
  /\ state = "statesp"
  /\ n.words = 1
  /\ n.errors = 2

\* ------------------------------------------------------------------
\* C16
\* ------------------------------------------------------------------

\* C16 as stated: chars goes down by one exactly on a continuation byte
\* taken in statec2, and a continuation byte taken in statec3 moves to
\* statec2 and changes no counter.
RetractOnlyOnCompletion ==
  [][pc = "loop" =>
       /\ n'.chars = IF state = "statec2" /\ buf[i + 1] \in Cont
                     THEN n.chars - 1 ELSE n.chars
       /\ (state = "statec3" /\ buf[i + 1] \in Cont) =>
            (state' = "statec2" /\ n' = n)]_vars

\* C16, amended: chars goes down by one on every continuation byte taken
\* in statec2 or statec3 and on no other byte, so once per 2-byte and
\* twice per 3-byte sequence; a continuation byte taken in statec3 moves
\* to statec2 and changes no counter but chars, one taken in statec2
\* moves to statewd.
RetractPerContinuation ==
  [][pc = "loop" =>
       /\ n'.chars = IF state \in Expecting /\ buf[i + 1] \in Cont
                     THEN n.chars - 1 ELSE n.chars
       /\ (state = "statec3" /\ buf[i + 1] \in Cont) =>
            (state' = "statec2" /\ n' = [n EXCEPT !.chars = n.chars - 1])
       /\ (state = "statec2" /\ buf[i + 1] \in Cont) =>
            (state' = "statewd" /\ n' = [n EXCEPT !.chars = n.chars - 1])]_vars

\* A whole 3-byte sequence has been read: three bytes, one character.
RetractWitness ==
  /\ pc = "done"
  /\ input = <<226, 128, 128>>
  /\ state = "statewd"
  /\ n.bytes = 3
  /\ n.chars = 1

\* ------------------------------------------------------------------
\* C17
\* ------------------------------------------------------------------

\* C17: count() ends in statec2 or statec3 exactly when the stream ends
\* with a partial rune: a lead 0xC0-0xEF, or a lead 0xE0-0xEF and one
\* continuation byte.
PendingIffPartialRune ==
  pc = "done" => (state \in Expecting <=> TrailLen(input) > 0)

\* Input ended one continuation byte short of a 3-byte sequence.
PartialRuneWitness ==
  /\ pc = "done"
  /\ input = <<32, 226, 128>>
  /\ state = "statec2"

\* ------------------------------------------------------------------
\* C18
\* ------------------------------------------------------------------

\* C18: between any two bytes, lines + words <= chars <= bytes and
\* errors <= chars; chars has not wrapped; a byte that takes a character
\* back finds chars above zero and counts no line, word or error.
CountersStayOrdered ==
  /\ n.lines + n.words <= n.chars
  /\ n.chars <= n.bytes
  /\ n.errors <= n.chars
  /\ n.chars >= 0
  /\ pc = "loop" =>
       LET r == StepByte(state, n, buf[i + 1])
       IN  r.n.chars # n.chars =>
             /\ n.chars > 0
             /\ r.n.lines = n.lines
             /\ r.n.words = n.words
             /\ r.n.errors = n.errors

\* In the middle of a chunk: a line, a word, two errors and three
\* characters counted so far, the last byte still provisional.
OrderedWitness ==
  /\ pc = "loop"
  /\ input = <<128, 10, 195, 240>>
  /\ nr = 4
  /\ i = 3
  /\ n.lines = 1
  /\ n.words = 2
  /\ n.errors = 1
  /\ n.chars = 4

\* ------------------------------------------------------------------
\* C19
\* ------------------------------------------------------------------

\* The state a byte other than a continuation byte leads to.
StateAfter(b) ==
  IF b \in White THEN "statesp"
  ELSE IF b \in Lead2 THEN "statec2"
  ELSE IF b \in Lead3 THEN "statec3"
  ELSE "statewd"

\* The state after a stream of two or more bytes, from its last two.
StateOfLastTwo(s) ==
  IF s[Len(s)] \notin Cont THEN StateAfter(s[Len(s)])
  ELSE IF s[Len(s) - 1] \in Lead3 THEN "statec2"
  ELSE "statewd"

\* C19: a byte outside 0x80-0xBF leads to a state fixed by the byte
\* alone, a continuation byte to statec2 from statec3 and to statewd from
\* the other states; so after two or more bytes the state is fixed by the
\* last two bytes.
ResyncWithinTwoBytes ==
  /\ pc = "loop" =>
       StepByte(state, n, buf[i + 1]).state =
         IF buf[i + 1] \notin Cont THEN StateAfter(buf[i + 1])
         ELSE IF state = "statec3" THEN "statec2" ELSE "statewd"
  /\ (pc # "begin" /\ Len(Seen) >= 2) => state = StateOfLastTwo(Seen)

\* After two errors the decoder is where the last two bytes put it.
ResyncWitness ==
  /\ pc = "done"
  /\ input = <<240, 128, 226, 128>>
  /\ n.errors = 2
  /\ state = "statec2"

\* ------------------------------------------------------------------
\* C20
\* ------------------------------------------------------------------

\* s from position p on is a concatenation of well-formed units, then
\* possibly one incomplete sequence.
RECURSIVE WellFormedFrom(_, _)
WellFormedFrom(s, p) ==
  IF p > Len(s) THEN TRUE
  ELSE IF s[p] < 128 THEN WellFormedFrom(s, p + 1)
  ELSE IF s[p] \in Lead2 THEN
    \/ p = Len(s)
    \/ s[p + 1] \in Cont /\ WellFormedFrom(s, p + 2)
  ELSE IF s[p] \in Lead3 THEN
    \/ p = Len(s)
    \/ p + 1 = Len(s) /\ s[p + 1] \in Cont
    \/ p + 2 <= Len(s) /\ s[p + 1] \in Cont /\ s[p + 2] \in Cont
         /\ WellFormedFrom(s, p + 3)
  ELSE FALSE

\* C20: the final errors counter is 0 exactly for the streams made of
\* well-formed units, optionally followed by one incomplete sequence.
NoErrorsIffWellFormed ==
  pc = "done" => (n.errors = 0 <=> WellFormedFrom(input, 1))

\* A letter, a 2-byte sequence and an incomplete 3-byte sequence: no error.
WellFormedWitness ==
  /\ pc = "done"
  /\ input = <<65, 195, 128, 226>>
  /\ n.errors = 0
  /\ n.chars = 3

\* ------------------------------------------------------------------
\* C12
\* ------------------------------------------------------------------

\* C12: count() reaches its first read with the five counters at zero
\* and the decoder in statesp, whatever the source before left behind;
\* it returns with the counters of that source read alone, and every
\* line written for a file carries the counters of that file read alone.
SourcesAreIndependent ==
  /\ (pc = "read" /\ off = 0) => (n = ZeroCounter /\ state = "statesp")
  /\ pc = "done" => n = CountWhole(input).n
  /\ \A k \in 1..Len(out) :
       out[k].name \in Paths => out[k].c = CountWhole(FileData(out[k].name)).n

\* The same file reported first and again after a file that ended in
\* the middle of a 3-byte sequence, with the same counters.
IndependentWitness ==
  /\ args = <<"text", "lead3", "text">>
  /\ Len(out) >= 3
  /\ out[2].name = "lead3"
  /\ out[2].c.chars = 1
  /\ out[3].name = "text"
  /\ out[3].c = out[1].c
  /\ out[3].c = [lines |-> 1, words |-> 1, chars |-> 2, errors |-> 0, bytes |-> 2]

\* ------------------------------------------------------------------
\* C13
\* ------------------------------------------------------------------

RECURSIVE SumCounters(_)
SumCounters(ls) ==
  IF ls = << >> THEN ZeroCounter
  ELSE AddCounters(SumCounters(SubSeq(ls, 1, Len(ls) - 1)), ls[Len(ls)].c)

\* The lines written so far for sources: all but the total line.
SourceLines ==
  IF pc = "exit" /\ status = 0 /\ NArg > 1
  THEN SubSeq(out, 1, Len(out) - 1) ELSE out

\* C13 as stated: between sources and at the end, t is the sum of the
\* counters reported per source so far, named files or standard input.
TotalsAreSums ==
  pc \in {"for", "exit"} => t = SumCounters(SourceLines)

\* C13, amended: t is the sum of the counters reported so far for named
\* files; the counters of standard input, read when no file is named,
\* are reported but not added to t, which stays zero.
TotalsAreSumsOfFiles ==
  pc \in {"for", "exit"} =>
    /\ NArg > 0 => (Len(SourceLines) = argi /\ t = SumCounters(SourceLines))
    /\ NArg = 0 => t = ZeroCounter

\* Three files done and the total line written.
TotalsWitness ==
  /\ pc = "exit"
  /\ status = 0
  /\ args = <<"text", "bad", "lead3">>
  /\ Len(out) = 4
  /\ out[4] = Report(t, "total")
  /\ t = [lines |-> 2, words |-> 3, chars |-> 5, errors |-> 1, bytes |-> 6]

\* ------------------------------------------------------------------
\* C14
\* ------------------------------------------------------------------

\* C14: main never gets past a source that cannot be opened: every
\* source gone through was opened; a diagnostic is written only with
\* exit status 1, and then the process has stopped at that source, the
\* diagnostic names it, and stdout holds the lines of the sources before
\* it, in order, and nothing else: no later source, no total line.
OpenFailureExits ==
  /\ \A k \in 1..argi : Opens(args[k])
  /\ errout # << >> => status = 1
  /\ status = 1 =>
       /\ pc = "exit"
       /\ argi < NArg
       /\ ~Opens(args[argi + 1])
       /\ errout = <<[msg |-> "can't open", name |-> args[argi + 1]]>>
       /\ Len(out) = argi
       /\ \A k \in 1..argi : out[k].name = args[k]

\* The second of three files cannot be opened: one line written, exit 1.
OpenFailureWitness ==
  /\ status = 1
  /\ pc = "exit"
  /\ args = <<"text", "missing", "lead2">>
  /\ argi = 1
  /\ out = <<Report(CountWhole(FileData("text")).n, "text")>>
  /\ errout = <<[msg |-> "can't open", name |-> "missing"]>>

\* ------------------------------------------------------------------
\* C15
\* ------------------------------------------------------------------

\* C15: once a read of a source has returned an error, no line is written
\* for that source, and the process ends with a non-zero exit status and
\* a message naming the source.
ReadFailureIsFatal ==
  \A nm \in rderr :
    /\ \A k \in 1..Len(out) : out[k].name # nm
    /\ pc = "exit" =>
         /\ status # 0
         /\ \E k \in 1..Len(errout) : errout[k].name = nm

====
